---- MODULE Spec2Model ----
(***************************************************************************)
(* State-machine model of the VideoEffectsEditor React component           *)
(* (src/main.js): the render effect with its frame loop and backend        *)
(* selection, the visibility handler, the source upload handler and the    *)
(* MediaRecorder based export pipeline.                                    *)
(*                                                                         *)
(* React state (useState) and refs (useRef) are variables.  A value that a *)
(* callback reads from the render it was created in (a closure) is stored  *)
(* with the callback: the render effect instance `eff` keeps the useWebGL, *)
(* params and error it was created with, a recorder keeps the              *)
(* exportPreviewUrl its onstop handler closed over.                        *)
(***************************************************************************)
EXTENDS Integers, Sequences, FiniteSets, TLC

\* ---------------------------------------------------------------- bounds
MaxTime      == 102  \* ticks stop advancing the clock at this timestamp (ms)
MaxUploads   == 2     \* number of files the user uploads
MaxRecorders == 2     \* number of MediaRecorder objects startRecording creates
MaxBasic     == 1     \* basic-effect values: 0 is the default, 1.. are edits
MaxLevel     == 2     \* pixel level: brightness, contrast, saturation in 0..MaxLevel

\* ------------------------------------------------------ program constants
targetFPS == 30

\* Tick spacings of the host's requestAnimationFrame, in ms (60 Hz, 30 Hz,
\* and two callbacks of one animation frame).
Deltas == {0, 17, 34}

NULL == 0

ErrWebGL    == "WebGL not supported"
ErrShader   == "Failed to initialize WebGL shaders"
ErrFile     == "Failed to load file"
ErrNoCanvas == "No canvas available for recording"
ErrRecorder == "Recording error occurred"
ErrStart    == "Failed to start recording"
ErrTaint    == "Pixel-level effects disabled"
NoError     == "null"

Errors == {NoError, ErrWebGL, ErrShader, ErrFile, ErrNoCanvas, ErrRecorder,
           ErrStart, ErrTaint}

\* Outcomes of GPU initialisation (environment).
GLOutcomes == {"ok", "nocontext", "shaderfail"}

\* Outcomes of startRecording's calls into the runtime (environment).
StartOutcomes == {"ok", "captureStream", "constructor", "start"}

\* What a dispatch runs into (environment): nothing, a throwing texImage2D,
\* a throwing GL call, a throwing drawImage, a denied getImageData.
Faults == {"none", "texImage2D", "glcall", "drawImage", "getImageData"}

ParamFields == {"basic", "vignette", "grain", "chromatic"}

ParamValues(f) == IF f = "basic" THEN 0..MaxBasic ELSE 0..1

DefaultParams == [basic |-> 0, vignette |-> 0, grain |-> 0, chromatic |-> 0]

\* ------------------------------------------------------ pixel-level data
\* One dispatch is also computed on the pixels of a 2 x 2 video frame.  A
\* colour channel is a fixed-point number, One standing for 1.0; a pixel is
\* its three colour channels and its alpha.  Positions are <<x, y>>, y
\* counted from the top row, for the video frame and for the canvas alike.
One == 100

Pos == {<<0, 0>>, <<1, 0>>, <<0, 1>>, <<1, 1>>}

HueValues == {0, 180}

FxSet ==
  [brightness : 0..MaxLevel, contrast : 0..MaxLevel, saturation : 0..MaxLevel,
   hue : HueValues, sepia : 0..1, vignette : 0..1, grain : 0..1,
   chromatic : 0..1]

\* The initial values of the effect states (lines 17-26).
DefaultFx ==
  [brightness |-> 1, contrast |-> 1, saturation |-> 1, hue |-> 0, sepia |-> 0,
   vignette |-> 0, grain |-> 0, chromatic |-> 0]

Pixel(r, g, b, a) == [rgb |-> <<r, g, b>>, a |-> a]

Transparent == Pixel(0, 0, 0, 0)

\* The pixels video frames are made of: an opaque orange and a half
\* transparent blue.
SamplePixels == {Pixel(One, 40, 20, One), Pixel(20, 60, One, 50)}

\* The frames: uniform ones, and ones whose top left pixel differs from the
\* rest, so that rows and columns can be told apart.
VideoFrames ==
  {[p \in Pos |-> IF p = <<0, 0>> THEN a ELSE b] :
     a \in SamplePixels, b \in SamplePixels}

BlankFrame == [p \in Pos |-> Transparent]

\* The canvas before any dispatch: nothing drawn, no style filter, the
\* pixel buffer neither read nor rewritten.
BlankCanvas ==
  [op |-> "none", covered |-> {}, bitmap |-> BlankFrame, filter |-> <<>>,
   read |-> FALSE, rewritten |-> FALSE, passes |-> <<>>]

VARIABLES
  mounted,            \* the component is mounted
  src,                \* useState src: NULL or the object URL of the upload
  prevSrcRef,         \* useRef prevSrcRef
  liveSrcUrls,        \* source object URLs created and not revoked
  uploads,            \* number of object URLs created by handleFile
  videoPaused,        \* originalVideoRef.current.paused
  playing,            \* useState playing
  useWebGL,           \* useState useWebGL (the backend preference)
  params,             \* useState brightness .. chromatic
  error,              \* useState error
  recording,          \* useState recording
  exporting,          \* useState exporting
  exportPreviewUrl,   \* useState exportPreviewUrl: NULL or an export URL
  mediaRecorderRef,   \* useRef mediaRecorderRef: NULL or a recorder id
  recordedChunksRef,  \* useRef recordedChunksRef: sequence of chunks
  recorders,          \* the MediaRecorder objects created so far
  isVisibleRef,       \* useRef isVisibleRef
  lastFrameTimeRef,   \* useRef lastFrameTimeRef
  rafPending,         \* a requestAnimationFrame callback is scheduled
  eff,                \* the live instance of the render effect
  canvasFilter,       \* canvas.style.filter: NULL or the basic value in it
  now,                \* timestamp of the latest animation frame
  lastStep,           \* what the latest step did (observation only)
  lastDispatch,       \* time of the latest performed dispatch, -1 if none
  dispatchCount,      \* number of performed dispatches
  firstTick,          \* timestamp of the first tick, -1 before it
  fellBack,           \* GPU init failed and the preference was not set back
  pixIn,              \* pixel level: the video frame and effect values of a dispatch
  pixOut              \* pixel level: the canvas after that dispatch

sourceVars == <<src, prevSrcRef, liveSrcUrls, uploads>>
videoVars  == <<videoPaused, playing>>
exportVars == <<recording, exporting, exportPreviewUrl, mediaRecorderRef,
                recordedChunksRef, recorders>>
schedVars  == <<isVisibleRef, lastFrameTimeRef, rafPending, now,
                lastDispatch, dispatchCount, firstTick>>
renderVars == <<useWebGL, params, eff, canvasFilter, fellBack>>

vars == <<mounted, src, prevSrcRef, liveSrcUrls, uploads, videoPaused, playing,
          useWebGL, params, error, recording, exporting, exportPreviewUrl,
          mediaRecorderRef, recordedChunksRef, recorders, isVisibleRef,
          lastFrameTimeRef, rafPending, eff, canvasFilter, now, lastStep,
          lastDispatch, dispatchCount, firstTick, fellBack, pixIn, pixOut>>

\* The variables of the component, without the pixel level.
componentVars ==
  <<mounted, src, prevSrcRef, liveSrcUrls, uploads, videoPaused, playing,
    useWebGL, params, error, recording, exporting, exportPreviewUrl,
    mediaRecorderRef, recordedChunksRef, recorders, isVisibleRef,
    lastFrameTimeRef, rafPending, eff, canvasFilter, now, lastStep,
    lastDispatch, dispatchCount, firstTick, fellBack>>

\* The observation of a step: the handler that ran, the dispatch it
\* performed ("none", "drawWebGL", "draw2D"), the result of the GPU
\* initialisation it attempted ("none", "ok", "fail"), whether the handler
\* ended by an uncaught exception, and whether it scheduled the next tick.
\* A step also tells the GL handles its cleanup released and its setup
\* allocated, in call order, whether its getImageData was denied and whether
\* draw2D called setError with the tainting warning; Step leaves these at
\* "nothing" and the handlers that do them fill them in.
Step(op, dispatch, glInit, threw, scheduled) ==
  [op |-> op, dispatch |-> dispatch, glInit |-> glInit, threw |-> threw,
   scheduled |-> scheduled, released |-> <<>>, allocated |-> <<>>,
   denied |-> FALSE, warned |-> FALSE]

\* ------------------------------------------------------- render effect
\* The render effect's setup (lines 162-373) for the render with state
\* (uw, pr, er): the closure it creates.  setupGL runs only when uw.
\* initWebGLSafe fails with "nocontext", createProgram with "shaderfail".
initWebGLSafe(outcome) == outcome # "nocontext"

setupGL(outcome) ==
  IF ~initWebGLSafe(outcome)
    THEN [gl |-> FALSE, program |-> FALSE, positionBuffer |-> FALSE, tex |-> FALSE]
    ELSE IF outcome = "shaderfail"
      THEN [gl |-> TRUE, program |-> FALSE, positionBuffer |-> FALSE, tex |-> FALSE]
      ELSE [gl |-> TRUE, program |-> TRUE, positionBuffer |-> TRUE, tex |-> TRUE]

NoGL == [gl |-> FALSE, program |-> FALSE, positionBuffer |-> FALSE, tex |-> FALSE]

EffectInstance(uw, pr, er, res) ==
  [useWebGL |-> uw, params |-> pr, error |-> er, gl |-> res.gl,
   program |-> res.program, positionBuffer |-> res.positionBuffer,
   tex |-> res.tex]

\* The error setupGL reports for a failed initialisation.
setupError(outcome) == IF outcome = "nocontext" THEN ErrWebGL ELSE ErrShader

\* A setup that reports the failure and keeps the GPU preference.
PreferenceAfterSetup_Kept(uw, outcome) == uw

\* The backend preference after the setup of a render with useWebGL = uw:
\* a failed initialisation calls setUseWebGL(false) (lines 182, 226).
PreferenceAfterSetup(uw, outcome) == uw /\ outcome = "ok"

\* The error state after that setup: a failed initialisation calls setError
\* (lines 181, 225).
ErrorAfterSetup(uw, er, outcome) ==
  IF uw /\ outcome # "ok" THEN setupError(outcome) ELSE er

\* The dependency list of the render effect (line 386): the effect is torn
\* down and set up again only when one of these differs from the render the
\* live instance was created in.  `error` is not in the list.
DepsChanged(uw, pr) == uw # eff.useWebGL \/ pr # eff.params

\* The GL handles of an instance, in the order the cleanup tests them.
Handles == <<"tex", "positionBuffer", "program">>

\* A cleanup that releases the program first.
cleanup_ProgramFirst(e) ==
  IF e.gl THEN SelectSeq(<<"program", "tex", "positionBuffer">>, LAMBDA h : e[h])
  ELSE <<>>

\* The delete calls of the render effect's cleanup (lines 378-383) for the
\* instance e, in call order: deleteTexture, deleteBuffer, deleteProgram,
\* each only when gl and the handle are set.
cleanup(e) ==
  IF e.gl THEN SelectSeq(Handles, LAMBDA h : e[h]) ELSE <<>>

\* The create calls of a setupGL that ends with resources res, in call
\* order: createProgram (line 222), createBuffer (229), createTexture (234).
created(res) ==
  SelectSeq(<<"program", "positionBuffer", "tex">>, LAMBDA h : res[h])

\* Commit of a render with state (uw, pr, er) caused by handler `op`.
\* If the dependencies changed, the cleanup of the live instance runs
\* (cancelAnimationFrame, release of the GL handles) and the setup runs
\* again: GPU initialisation when uw, with the given outcome; a failure
\* calls setError and setUseWebGL(false) (lines 181-182, 225-226), which
\* leaves a render pending whose dependencies differ from the new
\* instance's.  The setup always ends by requesting an animation frame.
Commit(op, uw, pr, er, outcome) ==
  IF ~DepsChanged(uw, pr)
    THEN /\ outcome = "ok"
         /\ useWebGL' = uw /\ params' = pr /\ error' = er
         /\ UNCHANGED <<eff, rafPending>>
         /\ fellBack' = (fellBack /\ ~uw)
         /\ lastStep' = Step(op, "none", "none", FALSE, FALSE)
    ELSE IF uw
      THEN /\ eff' = EffectInstance(uw, pr, er, setupGL(outcome))
           /\ rafPending' = TRUE
           /\ params' = pr
           /\ useWebGL' = PreferenceAfterSetup(uw, outcome)
           /\ error' = ErrorAfterSetup(uw, er, outcome)
           /\ fellBack' = (outcome # "ok")
           /\ lastStep' = [Step(op, "none", IF outcome = "ok" THEN "ok" ELSE "fail",
                                FALSE, TRUE)
                             EXCEPT !.released = cleanup(eff),
                                    !.allocated = created(setupGL(outcome))]
      ELSE /\ outcome = "ok"
           /\ eff' = EffectInstance(uw, pr, er, NoGL)
           /\ rafPending' = TRUE
           /\ useWebGL' = uw /\ params' = pr /\ error' = er
           /\ fellBack' = fellBack
           /\ lastStep' = [Step(op, "none", "none", FALSE, TRUE)
                             EXCEPT !.released = cleanup(eff)]

\* The component after construction and the first run of its effects.
ComponentInit ==
  /\ mounted = TRUE
  /\ src = NULL /\ prevSrcRef = NULL /\ liveSrcUrls = {} /\ uploads = 0
  /\ videoPaused = TRUE /\ playing = FALSE
  /\ params = DefaultParams
  /\ recording = FALSE /\ exporting = FALSE /\ exportPreviewUrl = NULL
  /\ mediaRecorderRef = NULL /\ recordedChunksRef = <<>> /\ recorders = <<>>
  /\ isVisibleRef = TRUE /\ lastFrameTimeRef = 0
  /\ canvasFilter = NULL
  /\ now = 0
  /\ lastDispatch = -1 /\ dispatchCount = 0 /\ firstTick = -1
  \* the first run of the render effect: useWebGL starts TRUE (line 14)
  /\ \E outcome \in GLOutcomes :
       /\ eff = EffectInstance(TRUE, DefaultParams, NoError, setupGL(outcome))
       /\ rafPending = TRUE
       /\ useWebGL = PreferenceAfterSetup(TRUE, outcome)
       /\ error = ErrorAfterSetup(TRUE, NoError, outcome)
       /\ fellBack = (outcome # "ok")
       /\ lastStep = [Step("mount", "none", IF outcome = "ok" THEN "ok" ELSE "fail",
                           FALSE, TRUE)
                        EXCEPT !.allocated = created(setupGL(outcome))]

\* The component-level actions abstract the pixels of a dispatch (lastStep
\* and canvasFilter tell what it did); there the pixel level stays empty.
Init ==
  /\ ComponentInit
  /\ pixIn = [fx |-> DefaultFx, video |-> BlankFrame]
  /\ pixOut = BlankCanvas

\* ----------------------------------------------------------- user input
\* The backend toggle button (line 432): setUseWebGL(s => !s).
ToggleWebGL ==
  /\ mounted
  /\ \E outcome \in GLOutcomes : Commit("toggle", ~useWebGL, params, error, outcome)
  /\ UNCHANGED <<pixIn, pixOut, mounted, sourceVars, videoVars, exportVars, isVisibleRef,
                 lastFrameTimeRef, canvasFilter, now, lastDispatch,
                 dispatchCount, firstTick>>

\* An edit of an effect value by a slider (lines 484-509).
EditParam ==
  /\ mounted
  /\ \E f \in ParamFields : \E v \in ParamValues(f) : \E outcome \in GLOutcomes :
       /\ v # params[f]
       /\ Commit("edit", useWebGL, [params EXCEPT ![f] = v], error, outcome)
  /\ UNCHANGED <<pixIn, pixOut, mounted, sourceVars, videoVars, exportVars, isVisibleRef,
                 lastFrameTimeRef, canvasFilter, now, lastDispatch,
                 dispatchCount, firstTick>>

\* The render that setError / setUseWebGL(false) of a failed GPU
\* initialisation scheduled from inside the effect.
Rerender ==
  /\ mounted
  /\ DepsChanged(useWebGL, params)
  /\ \E outcome \in GLOutcomes : Commit("rerender", useWebGL, params, error, outcome)
  /\ UNCHANGED <<pixIn, pixOut, mounted, sourceVars, videoVars, exportVars, isVisibleRef,
                 lastFrameTimeRef, canvasFilter, now, lastDispatch,
                 dispatchCount, firstTick>>

\* An upload that keeps the previous object URL.
LiveAfterUpload_Kept(live, prev, url) == live \cup {url}

\* The unreleased source object URLs after an upload that created url:
\* lines 60-62 revoke the URL prevSrcRef holds, if any.
LiveAfterUpload(live, prev, url) == (live \ {prev}) \cup {url}

\* handleFile (lines 55-70) for a chosen file; createObjectURL may throw.
handleFile ==
  /\ mounted
  /\ uploads < MaxUploads
  /\ \E throws \in BOOLEAN :
       IF throws
         THEN /\ error' = ErrFile
              /\ UNCHANGED <<sourceVars, videoPaused>>
         ELSE /\ uploads' = uploads + 1
              /\ liveSrcUrls' = LiveAfterUpload(liveSrcUrls, prevSrcRef, uploads + 1)
              /\ prevSrcRef' = uploads + 1
              /\ src' = uploads + 1
              /\ error' = NoError
              \* a new src resets the media element, which ends up paused
              /\ videoPaused' = TRUE
  /\ lastStep' = Step("handleFile", "none", "none", FALSE, FALSE)
  /\ UNCHANGED <<pixIn, pixOut, mounted, playing, exportVars, schedVars, renderVars>>

\* Playback control (togglePlay, lines 73-83; the native controls do the
\* same through the play/pause listeners of lines 393-394).  play() is
\* rejected while no source is loaded.
togglePlay ==
  /\ mounted
  /\ IF videoPaused
       THEN /\ videoPaused' = (src = NULL)
            /\ playing' = TRUE
       ELSE /\ videoPaused' = TRUE
            /\ playing' = FALSE
  /\ lastStep' = Step("togglePlay", "none", "none", FALSE, FALSE)
  /\ UNCHANGED <<pixIn, pixOut, mounted, sourceVars, error, exportVars, schedVars, renderVars>>

\* A handler that records the visibility and leaves the playback alone.
PausesPlayback_Never(hidden, paused) == FALSE

\* The test of line 152: the handler pauses a playing video when the
\* document became hidden.
PausesPlayback(hidden, paused) == hidden /\ ~paused

\* handleVisibility (lines 148-156) on a visibilitychange event with
\* document.hidden = hidden.
handleVisibility ==
  /\ mounted
  /\ \E hidden \in BOOLEAN :
       /\ hidden = isVisibleRef      \* the event reports a change
       /\ isVisibleRef' = ~hidden
       /\ IF PausesPlayback(hidden, videoPaused)
            THEN videoPaused' = TRUE /\ playing' = FALSE
            ELSE UNCHANGED videoVars
  /\ lastStep' = Step("handleVisibility", "none", "none", FALSE, FALSE)
  /\ UNCHANGED <<pixIn, pixOut, mounted, sourceVars, error, exportVars, lastFrameTimeRef,
                 rafPending, now, lastDispatch, dispatchCount, firstTick,
                 renderVars>>

\* ------------------------------------------------------------ frame loop
\* video.readyState >= 2 (line 285): the element has a decoded frame once a
\* source is loaded.
VideoReady == src # NULL

\* The pixel-level branch of draw2D is entered (line 296).
AdvancedRequested(pr) == pr.grain > 0 \/ pr.vignette > 0 \/ pr.chromatic > 0

\* A throttle that takes the budget of a 60 FPS target.
Throttled_60(time, last) == (time - last) * (2 * targetFPS) < 1000

\* The throttle test of line 359, 1000 / targetFPS kept exact:
\* time - last < 1000 / targetFPS.
Throttled(time, last) == (time - last) * targetFPS < 1000

\* A tick that leaves the marker alone while the consumer is not visible.
HiddenMarker_Kept(time, last) == last

\* The last-frame marker after a tick that found the consumer not visible:
\* line 355 stores the tick's time.
HiddenMarker(time, last) == time

\* The backend chosen at line 365.
UsesWebGL(e) == e.useWebGL /\ e.program /\ e.gl

\* The dispatch of a tick throws out of frame(): drawWebGL has a try only
\* around texImage2D (line 257), draw2D only around the pixel block (lines
\* 297-328) and returns before drawing when the video is not ready.
DispatchThrows(e, fault) ==
  IF UsesWebGL(e) THEN fault = "glcall"
  ELSE VideoReady /\ fault = "drawImage"

\* The catch of draw2D's pixel block (line 327): setError is called when the
\* error the instance closed over is null.
Warns(e, fault) == fault = "getImageData" /\ e.error = NoError

\* frame(time) (lines 349-371), the requestAnimationFrame callback, at the
\* timestamp now + dt.
frame ==
  /\ mounted
  /\ rafPending
  /\ \E dt \in Deltas : \E fault \in Faults :
       LET time == IF now + dt > MaxTime THEN now ELSE now + dt
           last == lastFrameTimeRef
       IN
       /\ now' = time
       /\ firstTick' = IF firstTick = -1 THEN time ELSE firstTick
       /\ IF ~isVisibleRef
            THEN /\ fault = "none"
                 /\ lastFrameTimeRef' = HiddenMarker(time, last)
                 /\ rafPending' = TRUE
                 /\ lastStep' = Step("frame", "none", "none", FALSE, TRUE)
                 /\ UNCHANGED <<lastDispatch, dispatchCount, canvasFilter, error>>
            ELSE IF Throttled(time, last)
              THEN /\ fault = "none"
                   /\ rafPending' = TRUE
                   /\ lastStep' = Step("frame", "none", "none", FALSE, TRUE)
                   /\ UNCHANGED <<lastFrameTimeRef, lastDispatch, dispatchCount,
                                  canvasFilter, error>>
              ELSE /\ lastFrameTimeRef' = time
                   /\ lastDispatch' = time
                   /\ dispatchCount' = dispatchCount + 1
                   /\ rafPending' = ~DispatchThrows(eff, fault)
                   /\ lastStep' = [Step("frame",
                                        IF UsesWebGL(eff) THEN "drawWebGL" ELSE "draw2D",
                                        "none", DispatchThrows(eff, fault),
                                        ~DispatchThrows(eff, fault))
                                     EXCEPT !.denied = (fault = "getImageData"),
                                            !.warned = Warns(eff, fault)]
                   /\ IF UsesWebGL(eff)
                        THEN /\ fault \in {"none", "texImage2D", "glcall"}
                             /\ UNCHANGED <<canvasFilter, error>>
                        ELSE IF ~VideoReady
                          THEN /\ fault = "none"
                               /\ UNCHANGED <<canvasFilter, error>>
                          ELSE /\ fault \in {"none", "drawImage", "getImageData"}
                               /\ fault = "getImageData" => AdvancedRequested(eff.params)
                               /\ canvasFilter' = eff.params.basic + 1
                               /\ error' = IF Warns(eff, fault) THEN ErrTaint ELSE error
  /\ UNCHANGED <<pixIn, pixOut, mounted, sourceVars, videoVars, exportVars, isVisibleRef,
                 useWebGL, params, eff, fellBack>>

\* ------------------------------------------------------- export pipeline
\* A MediaRecorder created by startRecording.  state is the recorder's
\* state attribute; queue holds the events the runtime has queued for it,
\* delivered in order; closureUrl is the exportPreviewUrl its onstop handler
\* closed over (the render startRecording belonged to); url tells whether
\* onstop created its object URL and whether that URL was revoked.
Recorder(st, q, closure) ==
  [state |-> st, queue |-> q, closureUrl |-> closure, errored |-> FALSE,
   url |-> "none"]

RecorderIds == 1..Len(recorders)

\* startRecording (lines 86-130), reachable through the Start Export button
\* that is rendered while recording is false (line 439).  canvasRef.current
\* is the canvas element of line 461, present in every render, so the
\* guard of line 88 does not fire while the component is mounted.
startRecording ==
  /\ mounted
  /\ ~recording
  /\ Len(recorders) < MaxRecorders
  /\ \E outcome \in StartOutcomes :
       /\ recordedChunksRef' = <<>>
       /\ IF outcome \in {"captureStream", "constructor"}
            THEN UNCHANGED <<mediaRecorderRef, recorders>>
            ELSE /\ mediaRecorderRef' = Len(recorders) + 1
                 /\ recorders' = Append(recorders,
                      IF outcome = "ok"
                        THEN Recorder("recording", <<"start">>, exportPreviewUrl)
                        ELSE Recorder("inactive", <<>>, exportPreviewUrl))
       /\ IF outcome = "ok"
            THEN UNCHANGED <<error, exporting>>
            ELSE error' = ErrStart /\ exporting' = FALSE
       /\ lastStep' = Step("startRecording", "none", "none", outcome # "ok", FALSE)
  /\ UNCHANGED <<pixIn, pixOut, mounted, sourceVars, videoVars, recording, exportPreviewUrl,
                 schedVars, renderVars>>

\* stopRecording (lines 132-135), reachable through the Stop Export button
\* that is rendered while recording is true (line 440).  stop() makes the
\* recorder inactive and queues its final dataavailable and stop events.
stopRecording ==
  /\ mounted
  /\ recording
  /\ LET r == mediaRecorderRef IN
       IF r # NULL /\ recorders[r].state # "inactive"
         THEN /\ recorders' = [recorders EXCEPT
                   ![r].state = "inactive",
                   ![r].queue = @ \o <<"dataavailable", "stop">>]
              /\ lastStep' = Step("stopRecording", "none", "none", FALSE, FALSE)
         ELSE /\ UNCHANGED recorders
              /\ lastStep' = Step("stopRecording(inactive)", "none", "none",
                                  FALSE, FALSE)
  /\ UNCHANGED <<pixIn, pixOut, mounted, sourceVars, videoVars, error, recording, exporting,
                 exportPreviewUrl, mediaRecorderRef, recordedChunksRef,
                 schedVars, renderVars>>

\* The encoder fails while recorder r records: the runtime fires the error
\* event (onerror, lines 101-104), makes the recorder inactive and queues
\* the dataavailable and stop events, as for stop().  The error event is a
\* task of the recorder like the others, so it runs after the start event.  The callbacks of a
\* recorder keep running after the unmount; their state setters then
\* update state that is no longer rendered.
recorderError(r) ==
  /\ recorders[r].state = "recording"
  /\ recorders[r].queue = <<>>
  /\ recorders' = [recorders EXCEPT
       ![r].state = "inactive",
       ![r].errored = TRUE,
       ![r].queue = @ \o <<"dataavailable", "stop">>]
  /\ error' = ErrRecorder
  /\ lastStep' = Step("onerror", "none", "none", FALSE, FALSE)
  /\ UNCHANGED <<pixIn, pixOut, mounted, sourceVars, videoVars, recording, exporting,
                 exportPreviewUrl, mediaRecorderRef, recordedChunksRef,
                 schedVars, renderVars>>

\* onstart (lines 106-110).
onstart(r) ==
  /\ recording' = TRUE
  /\ exporting' = TRUE
  /\ recorders' = [recorders EXCEPT ![r].queue = Tail(@)]
  /\ UNCHANGED <<exportPreviewUrl, recordedChunksRef>>

\* ondataavailable (lines 97-99): a chunk of size 0 is not kept.  A chunk
\* is identified by the recorder that produced it.
ondataavailable(r, size) ==
  /\ recordedChunksRef' = IF size > 0 THEN Append(recordedChunksRef, r)
                                      ELSE recordedChunksRef
  /\ recorders' = [recorders EXCEPT ![r].queue = Tail(@)]
  /\ UNCHANGED <<recording, exporting, exportPreviewUrl>>

\* The export URLs that exist after URL.revokeObjectURL(u).
Revoke(recs, u) ==
  [i \in DOMAIN recs |-> IF i = u /\ recs[i].url = "live"
                           THEN [recs[i] EXCEPT !.url = "revoked"] ELSE recs[i]]

\* onstop (lines 112-122): the blob of the current chunk buffer gets a new
\* object URL (named after the recorder); the URL the handler closed over is
\* revoked; the new one is published.
onstop(r) ==
  /\ recording' = FALSE
  /\ exporting' = FALSE
  /\ recorders' = Revoke([recorders EXCEPT ![r].queue = Tail(@),
                                           ![r].url = "live"],
                         recorders[r].closureUrl)
  /\ exportPreviewUrl' = r
  /\ UNCHANGED recordedChunksRef

\* The runtime delivers the next queued event of recorder r.
deliver(r) ==
  /\ recorders[r].queue # <<>>
  /\ LET ev == Head(recorders[r].queue) IN
       \/ ev = "start" /\ onstart(r)
       \/ ev = "dataavailable" /\ \E size \in 0..1 : ondataavailable(r, size)
       \/ ev = "stop" /\ onstop(r)
  /\ lastStep' = Step(Head(recorders[r].queue), "none", "none", FALSE, FALSE)
  /\ UNCHANGED <<pixIn, pixOut, mounted, sourceVars, videoVars, error, mediaRecorderRef,
                 schedVars, renderVars>>

\* --------------------------------------------------------------- unmount
\* The cleanups of the effects: the first effect (lines 42-52) revokes the
\* source URL, and the export URL of the first render, which is null; the
\* visibility listener is removed; the render effect's cleanup (lines
\* 375-385) cancels the pending frame and releases the GL handles.
Unmount ==
  /\ mounted
  /\ mounted' = FALSE
  /\ liveSrcUrls' = liveSrcUrls \ {prevSrcRef}
  /\ rafPending' = FALSE
  /\ eff' = [eff EXCEPT !.program = FALSE, !.positionBuffer = FALSE, !.tex = FALSE]
  /\ lastStep' = [Step("unmount", "none", "none", FALSE, FALSE)
                    EXCEPT !.released = cleanup(eff)]
  /\ UNCHANGED <<pixIn, pixOut, src, prevSrcRef, uploads, videoVars, error, exportVars,
                 isVisibleRef, lastFrameTimeRef, now, lastDispatch,
                 dispatchCount, firstTick, useWebGL, params, canvasFilter,
                 fellBack>>

\* ----------------------------------------------------------- pixel level
Min(a, b) == IF a < b THEN a ELSE b
Max(a, b) == IF a > b THEN a ELSE b
Abs(a) == IF a < 0 THEN -a ELSE a
clamp(v, lo, hi) == Min(Max(v, lo), hi)

\* The element of a singleton set.  { F(x) : x \in {v} } is the set of the
\* one value F gives on the value of v: an assignment to a local variable of
\* the shader, its right-hand side evaluated once.
The(S) == CHOOSE r \in S : TRUE

\* rgb2hsv of the fragment shader (line 217).  The components of K are kept
\* in sixths (K = (0, -2, 4, -6) / 6), the hue is the fraction hn / hd of a
\* sixth of a turn and the saturation the fraction sn / sd, so that every
\* division of the shader is exact; e = 1e-10 only keeps the divisions by
\* d = 0 and by q.x = 0 defined, where the shader's quotient is 0 unless
\* q.x = 0 < d.
rgb2hsv(c) ==
  LET r == c[1]
      g == c[2]
      b == c[3]
      \* p = mix(vec4(c.bg, K.wz), vec4(c.gb, K.xy), step(c.b, c.g))
      p == IF g >= b THEN <<g, b, 0, -2>> ELSE <<b, g, -6, 4>>
      \* q = mix(vec4(p.xyw, c.r), vec4(c.r, p.yzx), step(p.x, c.r))
      q == IF r >= p[1] THEN <<r, p[2], p[3], p[1]>> ELSE <<p[1], p[2], p[4], r>>
      d == q[1] - Min(q[4], q[2])
  IN  [hn |-> IF d = 0 THEN Abs(q[3]) ELSE Abs(q[3] * d + (q[4] - q[2])),
       hd |-> IF d = 0 THEN 1 ELSE d,
       sn |-> d,
       sd |-> q[1],
       v  |-> q[1]]

\* One component of hsv2rgb, i = 1, 2, 3 for the offsets 0, 1/3, 2/3.
hsv2rgbAt(hsv, i) ==
  LET x  == (hsv.hn + 2 * (i - 1) * hsv.hd) % (6 * hsv.hd)
      pn == Abs(x - 3 * hsv.hd)
      kn == clamp(pn - hsv.hd, 0, hsv.hd)
  IN  IF hsv.sd = 0 THEN hsv.v
      ELSE (hsv.v * (hsv.sd * hsv.hd - hsv.sn * hsv.hd + hsv.sn * kn))
             \div (hsv.sd * hsv.hd)

\* hsv2rgb of the fragment shader (line 217):
\* p = abs(fract(h + (0, 1/3, 2/3)) * 6 - 3), c.z * mix(1, clamp(p - 1), c.y).
hsv2rgb(hsv) == <<hsv2rgbAt(hsv, 1), hsv2rgbAt(hsv, 2), hsv2rgbAt(hsv, 3)>>

\* texture2D(u_texture, uv + vec2(side * 0.003 * chromatic, 0)) at the centre
\* of texel <<x, y>>: with LINEAR filtering the texel is blended with its
\* neighbour on that side, weighted by the offset over the texel width
\* (0.003 / 0.5), the neighbour being the texel itself at the clamped edge.
texture2D(tex, x, y, side, chromatic) ==
  LET own == tex[<<x, y>>].rgb
      nb  == tex[<<clamp(x + side, 0, 1), y>>].rgb
      w   == 6 * chromatic
  IN  << (own[1] * (1000 - w) + nb[1] * w + 500) \div 1000,
         (own[2] * (1000 - w) + nb[2] * w + 500) \div 1000,
         (own[3] * (1000 - w) + nb[3] * w + 500) \div 1000 >>

\* The steps of main() of the fragment shader (line 217), each on the value
\* c the step before left.
\* c *= u_brightness; c = ((c - 0.5) * max(u_contrast, 0.0)) + 0.5
brightnessContrast(c, fx) ==
  << (c[1] * fx.brightness - One \div 2) * Max(fx.contrast, 0) + One \div 2,
     (c[2] * fx.brightness - One \div 2) * Max(fx.contrast, 0) + One \div 2,
     (c[3] * fx.brightness - One \div 2) * Max(fx.contrast, 0) + One \div 2 >>

\* hsv = rgb2hsv(c); hsv.y *= u_saturation; c = hsv2rgb(hsv)
saturate(c, fx) ==
  The({ hsv2rgb([hsv EXCEPT !.sn = @ * fx.saturation]) : hsv \in {rgb2hsv(c)} })

\* hsv = rgb2hsv(c); hsv.x += u_hue / 360.0; c = hsv2rgb(hsv)
hueRotate(c, fx) ==
  The({ hsv2rgb([hsv EXCEPT !.hn = @ + (fx.hue \div 60) * hsv.hd]) :
          hsv \in {rgb2hsv(c)} })

\* c = mix(c, sepiaColor, u_sepia)
sepiaMix(c, fx) ==
  << c[1] * (1 - fx.sepia)
       + ((393 * c[1] + 769 * c[2] + 189 * c[3]) \div 1000) * fx.sepia,
     c[2] * (1 - fx.sepia)
       + ((349 * c[1] + 686 * c[2] + 168 * c[3]) \div 1000) * fx.sepia,
     c[3] * (1 - fx.sepia)
       + ((272 * c[1] + 534 * c[2] + 131 * c[3]) \div 1000) * fx.sepia >>

\* if (u_vignette > 0.0) c *= mix(1.0, vig, u_vignette)
\* if (u_grain > 0.0) c += (n - 0.5) * 0.25 * u_grain
vignetteGrain(c, fx, n, vig) ==
  LET m == IF fx.vignette > 0
             THEN One * (1 - fx.vignette) + vig * fx.vignette ELSE One
      g == IF fx.grain > 0 THEN ((n - One \div 2) * fx.grain) \div 4 ELSE 0
  IN  << (c[1] * m) \div One + g, (c[2] * m) \div One + g, (c[3] * m) \div One + g >>

\* if (u_chromatic > 0.0) c = vec3(r, g, b), resampled from the texture
chromaticShift(c, tex, x, y, fx) ==
  IF fx.chromatic > 0
    THEN << texture2D(tex, x, y, 1, fx.chromatic)[1],
            tex[<<x, y>>].rgb[2],
            texture2D(tex, x, y, -1, fx.chromatic)[3] >>
    ELSE c

\* main() of the fragment shader (line 217) for the texel <<x, y>> of tex
\* with the uniforms fx; n is the value of the noise expression, in 0..One,
\* and vig the value of smoothstep(0.8, 0.2, dist), whose edges are in the
\* order GLSL leaves undefined.
\* gl_FragColor = vec4(clamp(c, 0.0, 1.0), color.a)
fsMain(tex, x, y, fx, n, vig) ==
  The({ Pixel(clamp(c6[1], 0, One), clamp(c6[2], 0, One), clamp(c6[3], 0, One),
              tex[<<x, y>>].a) :
    c6 \in { chromaticShift(c5, tex, x, y, fx) :
    c5 \in { vignetteGrain(c4, fx, n, vig) :
    c4 \in { sepiaMix(c3, fx) :
    c3 \in { hueRotate(c2, fx) :
    c2 \in { saturate(c1, fx) :
    c1 \in { brightnessContrast(tex[<<x, y>>].rgb, fx) } } } } } } })

\* The texel the quad of setupGL shows at canvas pixel p: the vertex at the
\* bottom of the canvas (y = -1) carries the texture coordinate t = 0 (line
\* 232), which is the first row texImage2D uploaded, the top row of the
\* video (no UNPACK_FLIP_Y_WEBGL is set).
Texel(p) == <<p[1], 1 - p[2]>>

\* The canvas pixels gl.drawArrays(gl.TRIANGLES, 0, 6) covers (line 281).
\* The vertex buffer of line 232 holds 20 floats, five vertices of 16 bytes,
\* and the draw reads six: WebGL either rejects the draw (INVALID_OPERATION,
\* nothing drawn) or reads the sixth vertex as zeros or as some vertex of the
\* buffer.  The first triangle then covers the bottom left pixel, the second
\* what the fetched vertex makes it cover, the whole rest at most.
Coverages == {{}, {<<0, 1>>}, Pos}

\* Values the shader's noise expression takes.
NoiseValues == {0, 90}

\* Values of smoothstep(0.8, 0.2, dist) at a pixel centre of the 2 x 2
\* canvas (dist = 0.354): 84 where it is computed as for ordered edges.
VigValues == {0, 84, One}

\* drawWebGL (lines 244-282) on the pixels: the texture is the video frame,
\* every covered pixel is the shader's output, the others keep the cleared
\* drawing buffer.  canvas.style.filter is not touched.  The dispatch is
\* computed once, on the blank canvas.
drawWebGLPixels ==
  /\ pixOut.op = "none"
  /\ \E cov \in Coverages : \E n \in NoiseValues : \E vig \in VigValues :
       /\ pixIn.fx.grain = 0 => n = 0
       /\ pixIn.fx.vignette = 0 => vig = One
       /\ pixOut' =
            [op |-> "drawWebGL", covered |-> cov,
             bitmap |-> [p \in Pos |->
                           IF p \in cov
                             THEN fsMain(pixIn.video, Texel(p)[1], Texel(p)[2],
                                         pixIn.fx, n, vig)
                             ELSE Transparent],
             filter |-> pixOut.filter,
             read |-> FALSE, rewritten |-> FALSE, passes |-> <<>>]
  /\ UNCHANGED <<componentVars, pixIn>>

\* smoothstep(0.4, 0.9, dist) of draw2D's vignette loop (lines 310-321) at
\* canvas pixel p, in thousandths: dx = x / w - 0.5 and dy = y / h - 0.5 give
\* dist = 0.707 at <<0, 0>>, 0.5 at <<1, 0>> and <<0, 1>>, 0 at <<1, 1>>.
smoothstep2D(p) ==
  IF p = <<0, 0>> THEN 668 ELSE IF p = <<1, 1>> THEN 0 ELSE 104

\* The pixel block of draw2D (lines 296-325) applied to pixel p of the drawn
\* frame: grain (rnd is Math.random(), in 0..One), then vignette; it has no
\* chromatic step.
pixelBlock(px, p, fx, rnd) ==
  LET n == IF fx.grain > 0
             THEN ((rnd - One \div 2) * 12 * fx.grain) \div 100 ELSE 0
      m == IF fx.vignette > 0 THEN 1000 - smoothstep2D(p) * fx.vignette ELSE 1000
  IN  [rgb |-> << (clamp(px.rgb[1] + n, 0, One) * m) \div 1000,
                  (clamp(px.rgb[2] + n, 0, One) * m) \div 1000,
                  (clamp(px.rgb[3] + n, 0, One) * m) \div 1000 >>,
       a |-> px.a]

\* The filter string of line 291, as the five values it is made of.
filterStr(fx) == <<fx.brightness, fx.contrast, fx.saturation, fx.hue, fx.sepia>>

\* The loops of draw2D's pixel block that run, in their order: grain (line
\* 302), then vignette (line 310).  The block has no other loop.
pixelPasses(fx) == SelectSeq(<<"grain", "vignette">>, LAMBDA e : fx[e] > 0)

\* draw2D (lines 284-330) on the pixels, the video being ready: the style
\* filter is set, drawImage copies the frame, and the pixel block runs when
\* an advanced effect is requested (line 296), unless getImageData is
\* denied: the buffer is read by getImageData (line 298), the loops run and
\* putImageData rewrites it (line 324).
draw2DPixels ==
  /\ pixOut.op = "none"
  /\ \E denied \in BOOLEAN : \E rnd \in NoiseValues :
       LET fx  == pixIn.fx
           adv == fx.grain > 0 \/ fx.vignette > 0 \/ fx.chromatic > 0
       IN
       /\ denied => adv
       /\ fx.grain = 0 => rnd = 0
       /\ pixOut' =
            [op |-> "draw2D", covered |-> Pos,
             bitmap |-> [p \in Pos |->
                           IF adv /\ ~denied
                             THEN pixelBlock(pixIn.video[p], p, fx, rnd)
                             ELSE pixIn.video[p]],
             filter |-> filterStr(fx),
             read |-> adv /\ ~denied,
             rewritten |-> adv /\ ~denied,
             passes |-> IF adv /\ ~denied THEN pixelPasses(fx) ELSE <<>>]
  /\ UNCHANGED <<componentVars, pixIn>>

Next ==
  \/ ToggleWebGL
  \/ EditParam
  \/ Rerender
  \/ handleFile
  \/ togglePlay
  \/ handleVisibility
  \/ frame
  \/ startRecording
  \/ stopRecording
  \/ \E r \in RecorderIds : recorderError(r)
  \/ \E r \in RecorderIds : deliver(r)
  \/ Unmount

\* The whole component.  The render loop and the export pipeline share no
\* state but `error` and `mounted`, so the properties below are checked under
\* the specifications that follow, each of which runs one part of the
\* component while the other stays in its initial state.
Spec == Init /\ [][Next]_vars

\* The render loop and the backend selection: ticks interleaved with
\* visibility changes, parameter edits, backend toggles and the renders a
\* failed GPU initialisation schedules.  No source is loaded and the export
\* pipeline stays idle; these actions neither read nor write their state.
RenderNext ==
  \/ ToggleWebGL
  \/ EditParam
  \/ Rerender
  \/ handleVisibility
  \/ frame

RenderSpec == Init /\ [][RenderNext]_vars

\* The render loop with a source: ticks interleaved with uploads, playback
\* control, visibility changes and the unmount, on the backend the first
\* render selected.
PlaybackNext ==
  \/ handleFile
  \/ togglePlay
  \/ handleVisibility
  \/ frame
  \/ Unmount

PlaybackSpec == Init /\ [][PlaybackNext]_vars

\* The backends with a source: uploads, parameter edits, the renders a
\* failed GPU initialisation schedules, and ticks.  The backend is the one
\* the GPU initialisations of the mount and of the edits select; the
\* consumer stays visible and the export pipeline idle.
BackendNext ==
  \/ handleFile
  \/ EditParam
  \/ Rerender
  \/ frame

BackendSpec == Init /\ [][BackendNext]_vars

\* The life of the backend instances: setups and teardowns by toggles,
\* edits, fallback renders and the unmount, with the ticks in between.
TeardownNext ==
  \/ ToggleWebGL
  \/ EditParam
  \/ Rerender
  \/ frame
  \/ Unmount

TeardownSpec == Init /\ [][TeardownNext]_vars

\* An edit of a basic effect value (the sliders of lines 484-496).
EditBasic ==
  /\ EditParam
  /\ \A f \in ParamFields \ {"basic"} : params'[f] = params[f]

\* The backend switches with a source: uploads, backend toggles, edits of
\* the basic effects, the renders a failed GPU initialisation schedules, and
\* ticks.  The advanced effects stay off, the consumer stays visible and the
\* export pipeline idle.
SwitchNext ==
  \/ handleFile
  \/ ToggleWebGL
  \/ EditBasic
  \/ Rerender
  \/ frame

SwitchSpec == Init /\ [][SwitchNext]_vars

\* The export pipeline alone: no tick runs and the backend is not changed.
ExportNext ==
  \/ handleFile
  \/ startRecording
  \/ stopRecording
  \/ \E r \in RecorderIds : recorderError(r)
  \/ \E r \in RecorderIds : deliver(r)
  \/ Unmount

ExportSpec == Init /\ [][ExportNext]_vars

\* The runtime delivers every queued recorder event.
ExportLiveSpec ==
  ExportSpec /\ \A r \in 1..MaxRecorders : WF_vars(r \in RecorderIds /\ deliver(r))

\* One dispatch on the pixels: the effect values and the video frame are
\* drawn from bounded sets and either backend draws the frame onto the blank
\* canvas.  The component stays as constructed.
PixelInit ==
  /\ ComponentInit
  /\ UsesWebGL(eff)
  /\ pixIn \in [fx : FxSet, video : VideoFrames]
  /\ pixOut = BlankCanvas

PixelNext ==
  \/ drawWebGLPixels
  \/ draw2DPixels

PixelSpec == PixelInit /\ [][PixelNext]_vars

TypeOK ==
  /\ mounted \in BOOLEAN
  /\ src \in 0..MaxUploads /\ prevSrcRef \in 0..MaxUploads
  /\ liveSrcUrls \subseteq 1..MaxUploads
  /\ error \in Errors
  /\ exportPreviewUrl \in 0..MaxRecorders
  /\ mediaRecorderRef \in 0..MaxRecorders
  /\ Len(recorders) <= MaxRecorders
  /\ now \in 0..MaxTime /\ lastFrameTimeRef \in 0..MaxTime

\* ================================================================ claims

\* A tick performed a dispatch in the latest step.
Dispatched == lastStep.op = "frame" /\ lastStep.dispatch # "none"

\* C1: when the GPU backend is preferred and its initialisation fails, the
\* preference becomes CPU and an error is set; from then on, until the
\* toggle sets the preference back to GPU, no dispatch runs drawWebGL and no
\* step attempts the GPU initialisation again.
C1_Fallback ==
  /\ [](lastStep.glInit = "fail" =>
          /\ useWebGL = FALSE
          /\ error \in {ErrWebGL, ErrShader}
          /\ fellBack)
  /\ [](fellBack => useWebGL = FALSE /\ lastStep.dispatch # "drawWebGL")
  /\ [][(fellBack /\ lastStep'.glInit # "none") => lastStep'.op = "toggle"]_vars
  /\ [][(fellBack /\ ~fellBack') => (lastStep'.op = "toggle" /\ useWebGL')]_vars

\* C1 witness: after a failed GPU initialisation a tick dispatched through
\* draw2D, the preference being CPU.
C1_Witness ==
  fellBack /\ Dispatched /\ lastStep.dispatch = "draw2D" /\ ~useWebGL
    /\ ~DepsChanged(useWebGL, params)

\* C2: two consecutive performed dispatches are at least 1000 / targetFPS ms
\* apart, whatever edits, toggles and visibility changes happen in between,
\* and the number of performed dispatches is at most
\* elapsed / (1000 / targetFPS) + 1, elapsed being the time from the first
\* tick to the latest.
C2_Throttle ==
  /\ [][(dispatchCount' = dispatchCount + 1 /\ lastDispatch # -1) =>
          (lastDispatch' - lastDispatch) * targetFPS >= 1000]_vars
  /\ [](IF firstTick = -1 THEN dispatchCount = 0
        ELSE dispatchCount * 1000 <= (now - firstTick) * targetFPS + 1000)

\* C2 witness: a second dispatch was performed by a loop that an edit or a
\* toggle restarted after the first one.
C2_Witness ==
  /\ dispatchCount = 2 /\ Dispatched
  /\ (eff.params # DefaultParams \/ ~eff.useWebGL)
  /\ firstTick < 34

C4_LoopSurvives ==
  (mounted /\ lastStep.op = "frame") => (~lastStep.threw /\ rafPending)

\* The recorders that are capturing.
ActiveRecorders == {r \in RecorderIds : recorders[r].state = "recording"}

\* The export object URLs created and not revoked.
LiveExportUrls == {r \in RecorderIds : recorders[r].url = "live"}

Idle == ~recording /\ ~exporting

\* C5 as stated: at most one recording session is active at any time; a
\* startRecording issued while a session records creates no second recorder
\* and leaves the chunk buffer alone.
C5_SingleSession ==
  /\ [](Cardinality(ActiveRecorders) <= 1)
  /\ [][(lastStep'.op = "startRecording" /\ ActiveRecorders # {}) =>
          UNCHANGED <<recorders, mediaRecorderRef, recordedChunksRef>>]_vars

\* C6 as stated: at most one published export URL is unreleased.
C6_OneArtifact == Cardinality(LiveExportUrls) <= 1

\* C7 as stated: whenever stopRecording is issued while a session records,
\* the export state eventually is Idle with an artifact published.
C7_StopReachesIdle ==
  (recording /\ lastStep.op \in {"stopRecording", "stopRecording(inactive)"})
    ~> (Idle /\ exportPreviewUrl # NULL)

\* C8 as stated: after an encoder error the user-facing error is set, the
\* export state is Idle, the chunks are discarded and no artifact is
\* published from the session.
C8_ErrorAbandons ==
  /\ lastStep.op = "onerror" =>
       (error = ErrRecorder /\ Idle /\ recordedChunksRef = <<>>)
  /\ \A r \in RecorderIds : recorders[r].errored => recorders[r].url = "none"

\* C9 as stated: a startRecording that fails sets the error and leaves the
\* export state Idle with no session active and the frame loop as it was.
C9_StartFailure ==
  (lastStep.op = "startRecording" /\ lastStep.threw) =>
    /\ error = ErrStart
    /\ Idle
    /\ ActiveRecorders = {}
    /\ (mounted => rafPending)

\* C10 as stated: a startRecording issued while no video is loaded is
\* rejected with an error and changes nothing else.
C10_NoSurface ==
  [][(lastStep'.op = "startRecording" /\ src = NULL) =>
       /\ error' = ErrNoCanvas
       /\ UNCHANGED <<recorders, mediaRecorderRef, recordedChunksRef,
                      recording, exporting>>]_vars

\* C11 as stated: a tick whose pixel read is denied still draws the base
\* frame, ends normally and schedules the next tick; after it the tainting
\* warning is the error shown, whatever error was shown before; and the
\* warning is not raised again while it is shown.
C11_WarnedOnce ==
  /\ [](lastStep.denied =>
          (lastStep.dispatch = "draw2D" /\ ~lastStep.threw /\ lastStep.scheduled))
  /\ [](lastStep.denied => error = ErrTaint)
  /\ [][lastStep'.warned => error # ErrTaint]_vars

\* The backend type an instance dispatches through.
BackendType(e) == IF UsesWebGL(e) THEN "GPU" ELSE "CPU"

\* C12 as stated: an edit of an effect value that leaves the backend type
\* unchanged releases no GL handle and allocates none, and GL handles are
\* allocated only by a step that changes the backend type.
C12_CheapEdits ==
  /\ [][(lastStep'.op = "edit" /\ BackendType(eff') = BackendType(eff)) =>
          (lastStep'.released = <<>> /\ lastStep'.allocated = <<>>)]_vars
  /\ [][lastStep'.allocated # <<>> => BackendType(eff') # BackendType(eff)]_vars

\* The latest step tore the live instance down: the unmount, or a render
\* that ran the effect again.
TornDown ==
  \/ lastStep.op = "unmount"
  \/ lastStep.op \in {"toggle", "edit", "rerender"} /\ lastStep.scheduled

\* The position of a handle in the order texture, vertex buffer, program.
Rank(h) == CHOOSE i \in 1..Len(Handles) : Handles[i] = h

C14_SourceRelease ==
  /\ [](Cardinality(liveSrcUrls) <= 1)
  /\ [][(uploads' = uploads + 1) =>
          (prevSrcRef \notin liveSrcUrls' /\ liveSrcUrls' = {prevSrcRef'})]_vars
  /\ [](~mounted => liveSrcUrls = {})

\* C14 witness: two files were uploaded, the second replacing the first, and
\* the component was unmounted.
C14_Witness ==
  ~mounted /\ uploads = 2 /\ prevSrcRef = 2 /\ liveSrcUrls = {}

\* C15 as stated: right after the unmount no export object URL is
\* unreleased and no recorder is capturing.
C15_TeardownReleases ==
  lastStep.op = "unmount" => (LiveExportUrls = {} /\ ActiveRecorders = {})

\* C18 as stated: a tick is pending exactly while the component is mounted,
\* and a GPU dispatch runs with the program, vertex buffer and texture of
\* the live instance allocated.
C18_SingleLoop ==
  /\ rafPending = mounted
  /\ lastStep.dispatch = "drawWebGL" =>
       (eff.gl /\ eff.program /\ eff.positionBuffer /\ eff.tex)

\* C19 as stated: the last-frame marker is the time of the latest performed
\* dispatch, 0 before the first.
C19_MarkerIsLastDispatch ==
  lastFrameTimeRef = IF lastDispatch = -1 THEN 0 ELSE lastDispatch

\* C19 amended: a tick that performs a dispatch sets the marker to its time;
\* a throttled tick leaves the marker unchanged; a tick that finds the
\* consumer not visible performs no dispatch and sets the marker to its
\* time; no other step changes the marker, which is 0 before the first tick
\* and never earlier than the latest dispatch.
C19_Marker ==
  /\ [][(lastStep'.op = "frame" /\ lastStep'.dispatch # "none") =>
          (lastFrameTimeRef' = now' /\ lastDispatch' = now')]_vars
  /\ [][(lastStep'.op = "frame" /\ lastStep'.dispatch = "none" /\ isVisibleRef) =>
          UNCHANGED lastFrameTimeRef]_vars
  /\ [][(lastStep'.op = "frame" /\ ~isVisibleRef) =>
          (lastStep'.dispatch = "none" /\ lastFrameTimeRef' = now')]_vars
  /\ [][lastStep'.op # "frame" => UNCHANGED lastFrameTimeRef]_vars
  /\ [](firstTick = -1 => lastFrameTimeRef = 0)
  /\ [](lastFrameTimeRef >= (IF lastDispatch = -1 THEN 0 ELSE lastDispatch))

\* C19 witness: after a dispatch a tick ran while the consumer was not
\* visible and moved the marker past the dispatch; the consumer is visible
\* again and a tick was throttled against that marker.
C19_Witness ==
  /\ isVisibleRef /\ lastStep.op = "frame" /\ lastStep.dispatch = "none"
  /\ lastDispatch # -1 /\ lastFrameTimeRef > lastDispatch
  /\ now > lastFrameTimeRef

\* The basic effects (brightness .. sepia) the latest dispatch drew into the
\* canvas bitmap: drawWebGL's shader applies them, draw2D's drawImage does
\* not.  0 is "none".
BakedBasic == IF lastStep.dispatch = "drawWebGL" THEN eff.params.basic ELSE 0

\* The basic effects of the canvas element's style.
StyledBasic == IF canvasFilter = NULL THEN 0 ELSE canvasFilter - 1

\* What canvas.captureStream reads: the bitmap, without the element's style.
Captured == [bitmap |-> BakedBasic, style |-> 0]

\* What the viewer sees: the bitmap through the element's style.
Displayed == [bitmap |-> BakedBasic, style |-> StyledBasic]

\* C20 as stated: the frame the capture reads has the effects of the frame
\* the viewer sees.
C20_CaptureIsPreview == Captured = Displayed

\* C16 as stated: with brightness 0 every pixel the shader wrote is black
\* with the alpha of its source pixel, whatever the other effect values.
C16_Absorbing ==
  (pixOut.op = "drawWebGL" /\ pixIn.fx.brightness = 0) =>
    \A p \in pixOut.covered :
      /\ pixOut.bitmap[p].rgb = <<0, 0, 0>>
      /\ pixOut.bitmap[p].a = pixIn.video[Texel(p)].a

\* C17 as stated: with every effect value at its default, after a dispatch
\* of either backend every canvas pixel is the video pixel at its position
\* and the style filter, if set, is the identity.
C17_Identity ==
  (pixOut.op # "none" /\ pixIn.fx = DefaultFx) =>
    /\ \A p \in Pos : pixOut.bitmap[p] = pixIn.video[p]
    /\ pixOut.filter \in {<<>>, filterStr(DefaultFx)}

\* The recorders whose onstop handler has produced its artifact.
Finalised == {r \in RecorderIds : recorders[r].url # "none"}

\* C22 as stated: in every Idle state that follows a finalisation the chunk
\* buffer of the session holds no chunks.
C22_ChunksReleased ==
  (Idle /\ Finalised # {}) => recordedChunksRef = <<>>

\* C21 as stated: the frame displayed after a performed dispatch has the
\* basic effects applied exactly once with their current value: either the
\* bitmap carries them and the element's style none, or the style carries
\* them and the bitmap none.
C21_AppliedOnce ==
  (lastStep.op = "frame" /\ lastStep.dispatch # "none" /\ ~lastStep.threw
     /\ VideoReady) =>
    \/ Displayed = [bitmap |-> params.basic, style |-> 0]
    \/ Displayed = [bitmap |-> 0, style |-> params.basic]

\* The advanced effects with a value above 0.
Requested(fx) == {e \in {"vignette", "grain", "chromatic"} : fx[e] > 0}

\* The pixel loops a dispatch ran.
Applied == {pixOut.passes[i] : i \in DOMAIN pixOut.passes}

\* C23 as stated: a dispatch of the CPU backend on a readable canvas reads
\* and rewrites the pixel buffer exactly when vignette, grain or chromatic
\* is above 0, and then applies each of the three that is above 0 to the
\* pixels; with chromatic alone the green channel is left as drawn.
C23_SlowPath ==
  (pixOut.op = "draw2D" /\ (pixOut.read \/ Requested(pixIn.fx) = {})) =>
    /\ (pixOut.read /\ pixOut.rewritten) <=> (Requested(pixIn.fx) # {})
    /\ Applied = Requested(pixIn.fx)
    /\ Requested(pixIn.fx) = {"chromatic"} =>
         \A p \in Pos : pixOut.bitmap[p].rgb[2] = pixIn.video[p].rgb[2]
====
